---- MODULE Spec2Model ----
(***************************************************************************)
(* Model of src/src/core/spawner/orchestrator.py: class Orchestrator.      *)
(*                                                                         *)
(* The three strategies (spawn_parallel, spawn_sequential,                 *)
(* spawn_with_dependencies) are asyncio coroutines on one event loop.      *)
(* An action of the model is the code that runs between two suspension     *)
(* points (await) of one coroutine; the scheduler picks the coroutine.     *)
(*                                                                         *)
(* Strings are sequences of string tokens, so that concatenation is        *)
(* concatenation. Python list index idx is model index idx + 1.            *)
(***************************************************************************)
EXTENDS Integers, Sequences, FiniteSets, TLC

\* ------------------------------------------------------------- bounds
MaxParTasks == 3
MaxConcurrent == 3
MaxSeqTasks == 3
MaxDepTasks == 3
MaxLiveTasks == 2
MaxObsTasks == 2
MaxPairTasks == 2
MaxWideTasks == 3

\* ------------------------------------------------------- data model
\* Task descriptions and the summary text a unit produces for each one.
TaskNames == <<"T1", "T2", "T3", "T4", "T5">>
SummaryNames == <<"S1", "S2", "S3", "S4", "S5">>
ErrorNames == <<"E1", "E2", "E3", "E4", "E5">>
DepIds == <<"A", "B", "C", "D", "E">>
DepTaskNames == <<"TA", "TB", "TC", "TD", "TE">>
DepSummaryNames == <<"SA", "SB", "SC", "SD", "SE">>
DepErrorNames == <<"EA", "EB", "EC", "ED", "EE">>
\* A TaskId that is never a key of the submitted graph.
Dangling == "Z"

\* task_spec.get('context', ''): tasks at even positions give no context.
TaskContext(i) == IF i % 2 = 1 THEN <<"ctx", TaskNames[i]>> ELSE << >>

\* The TaskSpec at position i of a tasks list.
TaskSpec(i) == [description |-> TaskNames[i], context |-> TaskContext(i)]

\* The summary text the unit for a given task produces.
SummaryOf(task) ==
    IF \E k \in 1..Len(TaskNames) : TaskNames[k] = task
    THEN SummaryNames[CHOOSE k \in 1..Len(TaskNames) : TaskNames[k] = task]
    ELSE DepSummaryNames[CHOOSE k \in 1..Len(DepTaskNames) : DepTaskNames[k] = task]

\* str(e) of the exception the unit for a given task raises.
MessageOf(task) ==
    IF \E k \in 1..Len(TaskNames) : TaskNames[k] = task
    THEN ErrorNames[CHOOSE k \in 1..Len(TaskNames) : TaskNames[k] = task]
    ELSE DepErrorNames[CHOOSE k \in 1..Len(DepTaskNames) : DepTaskNames[k] = task]

\* SubAgentResult(success, summary, error); error "None" is Python's None.
SubAgentResult(success, summary, error) ==
    [type |-> "Result", success |-> success, summary |-> summary, error |-> error]

\* An exception object: type is the Python class, msg is str(exception).
ExceptionObj(msg) == [type |-> "Exception", msg |-> msg]
CancelledObj == [type |-> "CancelledError", msg |-> ""]

\* The factory's product: the unit remembers what it was created with.
SubAgent(task, context) == [task |-> task, context |-> context]

\* Everything agent.run() can do: return a Result (consistent or not), raise
\* an Exception, or end with CancelledError (a BaseException).
RunOutcomes(agent) ==
    { SubAgentResult(s, SummaryOf(agent.task), e) :
          s \in BOOLEAN, e \in {"None", "err"} }
    \cup { ExceptionObj(MessageOf(agent.task)), CancelledObj }

Returned(o) == o.type = "Result"
Raised(o) == o.type \in {"Exception", "CancelledError"}
Pending == [type |-> "pending"]
\* Exceptions that are not a unit's: a failed factory call, a failed del.
NoException == [type |-> "None", msg |-> ""]
FactoryError == [type |-> "FactoryError", msg |-> "create_agent failed"]
KeyErrorObj == [type |-> "KeyError", msg |-> "agent key"]

\* The registry key f"agent_{idx}" of list position i (idx = i - 1).
AgentKey(i) == i - 1

VARIABLES
    active_agents,      \* self.active_agents: key -> unit
    \* --- spawn_parallel
    par_pc,             \* "off", "create", "gather", "returned", "raised"
    par_n,              \* len(tasks)
    max_concurrent,
    agents,             \* the list agents
    semaphore,          \* permits not held by a child inside async with
    par_child,          \* run_with_semaphore(i): "wait", "run", "done"
    par_results,        \* the slots of asyncio.gather
    par_order,          \* positions in the order their run() ended
    final_results,
    now,                \* the time since the call, in units of 10 ms
    par_started,        \* position -> the time its run() started, -1 before
    \* --- spawn_sequential
    seq_pc,             \* "off", "create", "run", "returned", "raised"
    seq_n,
    seq_idx,            \* the loop position (1-based)
    accumulated_context,
    seq_results,        \* the list results
    seq_agents,         \* the units the factory has produced, in order
    seq_running,        \* positions whose run() is in flight
    seq_finished,       \* position -> how its run() ended
    seq_exc,            \* the exception that left spawn_sequential, if any
    \* --- spawn_with_dependencies
    dep_pc,             \* "off", "gather", "returned", "raised"
    task_graph,         \* TaskId -> [description, context, dependencies]
    dep_results,        \* the dict results
    completed,          \* the set completed
    dep_watch,          \* execute_task(t): "poll", "create", "run", "done",
                        \* "create_failed", "run_failed"
    dep_agents,         \* TaskId -> the unit asked of the factory
    dep_exc,            \* the exception that left the call, if any
    dep_calls,          \* TaskId -> how many times execute_task has called
                        \* create_agent for it and run() on its unit
    \* --- get_active_agents, get_status
    listing,            \* what the last get_active_agents() returned
    status              \* what the last get_status() returned

parVars == <<par_pc, par_n, max_concurrent, agents, semaphore, par_child,
             par_results, par_order, final_results, now, par_started>>
seqVars == <<seq_pc, seq_n, seq_idx, accumulated_context, seq_results,
             seq_agents, seq_running, seq_finished, seq_exc>>
depVars == <<dep_pc, task_graph, dep_results, completed, dep_watch, dep_agents,
             dep_exc, dep_calls>>
obsVars == <<listing, status>>
vars == <<active_agents, parVars, seqVars, depVars, obsVars>>

\* ------------------------------------------------- registry helpers
EmptyMap == [k \in {} |-> Pending]
MapPut(m, k, v) == [x \in DOMAIN m \cup {k} |-> IF x = k THEN v ELSE m[x]]
MapDel(m, k) == [x \in DOMAIN m \ {k} |-> m[x]]

\* ------------------------------------------------- calls not made
ParOff ==
    /\ par_pc = "off" /\ par_n = 0 /\ max_concurrent = 0 /\ agents = << >>
    /\ semaphore = 0 /\ par_child = << >> /\ par_results = << >>
    /\ par_order = << >> /\ final_results = << >>
    /\ now = 0 /\ par_started = << >>
SeqOff ==
    /\ seq_pc = "off" /\ seq_n = 0 /\ seq_idx = 1 /\ accumulated_context = << >>
    /\ seq_results = << >> /\ seq_agents = << >> /\ seq_running = {}
    /\ seq_finished = EmptyMap /\ seq_exc = NoException
DepOff ==
    /\ dep_pc = "off" /\ task_graph = EmptyMap /\ dep_results = EmptyMap
    /\ completed = {} /\ dep_watch = EmptyMap /\ dep_agents = EmptyMap
    /\ dep_exc = NoException /\ dep_calls = EmptyMap

\* No get_active_agents() or get_status() call has returned yet.
NoListing == [kind |-> "none", keys |-> {}]
NoStatus == [kind |-> "none", active_agents |-> 0, agent_ids |-> {}]
ObsOff == listing = NoListing /\ status = NoStatus

\* ========================================================= spawn_parallel
\* The call spawn_parallel(tasks, max_concurrent) has been made.
ParCall ==
    /\ par_pc = "create"
    /\ par_n \in 0..MaxParTasks
    /\ max_concurrent \in 0..MaxConcurrent
    /\ agents = << >>
    /\ semaphore = 0
    /\ par_child = << >>
    /\ par_results = << >>
    /\ par_order = << >>
    /\ final_results = << >>
    /\ now = 0
    /\ par_started = << >>

\* Variant: a max_concurrent of 0 is raised to one permit.
ParLaunchFieldsAtLeastOne ==
    /\ semaphore' = IF max_concurrent = 0 THEN 1 ELSE max_concurrent
    /\ par_child' = [i \in 1..par_n |-> "wait"]
    /\ par_results' = [i \in 1..par_n |-> Pending]
    /\ par_started' = [i \in 1..par_n |-> -1]

\* Variant: the semaphore is built with one permit.
ParLaunchFieldsOnePermit ==
    /\ semaphore' = 1
    /\ par_child' = [i \in 1..par_n |-> "wait"]
    /\ par_results' = [i \in 1..par_n |-> Pending]
    /\ par_started' = [i \in 1..par_n |-> -1]

\* Lines 54-69, once the creation loop is over: the semaphore is built and
\* gather schedules one run_with_semaphore per unit. No await in between.
ParLaunchFields ==
    /\ semaphore' = max_concurrent
    /\ par_child' = [i \in 1..par_n |-> "wait"]
    /\ par_results' = [i \in 1..par_n |-> Pending]
    /\ par_started' = [i \in 1..par_n |-> -1]

\* One iteration of the creation loop whose factory call returns a unit.
ParCreate ==
    /\ par_pc = "create"
    /\ Len(agents) < par_n
    /\ LET i == Len(agents) + 1
           agent == SubAgent(TaskSpec(i).description, TaskSpec(i).context)
       IN /\ agents' = Append(agents, agent)
          /\ active_agents' = MapPut(active_agents, AgentKey(i), agent)
    /\ UNCHANGED <<par_pc, par_n, max_concurrent, semaphore, par_child,
                   par_results, par_order, final_results>>
    /\ UNCHANGED <<now, par_started>>
    /\ UNCHANGED <<seqVars, depVars, obsVars>>

\* One iteration of the creation loop whose factory call raises: the
\* exception leaves spawn_parallel.
ParCreateFail ==
    /\ par_pc = "create"
    /\ Len(agents) < par_n
    /\ par_pc' = "raised"
    /\ UNCHANGED <<active_agents, par_n, max_concurrent, agents, semaphore,
                   par_child, par_results, par_order, final_results>>
    /\ UNCHANGED <<now, par_started>>
    /\ UNCHANGED <<seqVars, depVars, obsVars>>

\* Variant: gather is started for the units created so far as soon as there
\* is one.
ParLaunchEarly ==
    /\ par_pc = "create"
    /\ Len(agents) > 0
    /\ par_pc' = "gather"
    /\ semaphore' = max_concurrent
    /\ par_child' = [i \in 1..Len(agents) |-> "wait"]
    /\ par_results' = [i \in 1..Len(agents) |-> Pending]
    /\ par_started' = [i \in 1..Len(agents) |-> -1]
    /\ UNCHANGED <<active_agents, par_n, max_concurrent, agents, par_order,
                   final_results>>
    /\ UNCHANGED now
    /\ UNCHANGED <<seqVars, depVars, obsVars>>

\* The loop is over: build the semaphore and start gather.
ParLaunch ==
    /\ par_pc = "create"
    /\ par_n > 0
    /\ Len(agents) = par_n
    /\ par_pc' = "gather"
    /\ ParLaunchFields
    /\ UNCHANGED <<active_agents, par_n, max_concurrent, agents, par_order,
                   final_results>>
    /\ UNCHANGED now
    /\ UNCHANGED <<seqVars, depVars, obsVars>>

\* Variant: run() starts without waiting for a permit.
ParAcquireNoGate(i) ==
    /\ par_pc = "gather"
    /\ par_child[i] = "wait"
    /\ semaphore' = semaphore - 1
    /\ par_child' = [par_child EXCEPT ![i] = "run"]
    /\ UNCHANGED <<active_agents, par_pc, par_n, max_concurrent, agents,
                   par_results, par_order, final_results>>
    /\ par_started' = [par_started EXCEPT ![i] = now]
    /\ UNCHANGED now
    /\ UNCHANGED <<seqVars, depVars, obsVars>>

\* gather starts the children in list order and asyncio.Semaphore wakes its
\* waiters first-in first-out: a child enters after the ones before it.
FifoTurn(i) == \A j \in 1..(i - 1) : par_child[j] # "wait"

\* async with semaphore: the permit is taken and agent.run() starts.
ParAcquire(i) ==
    /\ par_pc = "gather"
    /\ par_child[i] = "wait"
    /\ semaphore > 0
    /\ FifoTurn(i)
    /\ semaphore' = semaphore - 1
    /\ par_child' = [par_child EXCEPT ![i] = "run"]
    /\ UNCHANGED <<active_agents, par_pc, par_n, max_concurrent, agents,
                   par_results, par_order, final_results>>
    /\ par_started' = [par_started EXCEPT ![i] = now]
    /\ UNCHANGED now
    /\ UNCHANGED <<seqVars, depVars, obsVars>>

\* Variant: the permit is released after a return only (no async with).
ParRunEndLeak(i, o) ==
    /\ par_pc = "gather"
    /\ par_child[i] = "run"
    /\ o \in RunOutcomes(agents[i])
    /\ semaphore' = IF Returned(o) THEN semaphore + 1 ELSE semaphore
    /\ par_child' = [par_child EXCEPT ![i] = "done"]
    /\ par_results' = [par_results EXCEPT ![i] = o]
    /\ par_order' = Append(par_order, i)
    /\ UNCHANGED <<active_agents, par_pc, par_n, max_concurrent, agents,
                   final_results>>
    /\ UNCHANGED <<now, par_started>>
    /\ UNCHANGED <<seqVars, depVars, obsVars>>

\* Variant: a unit is removed from the registry when its run() ends.
ParRunEndUnregister(i, o) ==
    /\ par_pc = "gather"
    /\ par_child[i] = "run"
    /\ o \in RunOutcomes(agents[i])
    /\ semaphore' = semaphore + 1
    /\ par_child' = [par_child EXCEPT ![i] = "done"]
    /\ par_results' = [par_results EXCEPT ![i] = o]
    /\ par_order' = Append(par_order, i)
    /\ active_agents' = MapDel(active_agents, AgentKey(i))
    /\ UNCHANGED <<par_pc, par_n, max_concurrent, agents, final_results>>
    /\ UNCHANGED <<now, par_started>>
    /\ UNCHANGED <<seqVars, depVars, obsVars>>

\* agent.run() ends with outcome o; leaving the async with block releases
\* the permit on return and on exception alike; gather keeps o in slot i.
ParRunEnd(i, o) ==
    /\ par_pc = "gather"
    /\ par_child[i] = "run"
    /\ o \in RunOutcomes(agents[i])
    /\ semaphore' = semaphore + 1
    /\ par_child' = [par_child EXCEPT ![i] = "done"]
    /\ par_results' = [par_results EXCEPT ![i] = o]
    /\ par_order' = Append(par_order, i)
    /\ UNCHANGED <<active_agents, par_pc, par_n, max_concurrent, agents,
                   final_results>>
    /\ UNCHANGED <<now, par_started>>
    /\ UNCHANGED <<seqVars, depVars, obsVars>>

\* Variant: the gathered value is appended as it is.
FinalResultRaw(result) == result

\* Variant: a Result that carries an error is rewritten as a failure.
FinalResultNormalised(result) ==
    IF result.type = "Exception"
    THEN SubAgentResult(FALSE, "Agent failed with exception", result.msg)
    ELSE IF result.type = "Result" /\ result.error # "None"
         THEN SubAgentResult(FALSE, result.summary, result.error)
         ELSE result

\* Lines 72-82: what the loop appends for one gathered value.
FinalResult(result) ==
    IF result.type = "Exception"
    THEN SubAgentResult(FALSE, "Agent failed with exception", result.msg)
    ELSE result

\* Variant: the values are collected in the order the runs ended.
ParJoinCompletionOrder ==
    /\ par_pc = "gather"
    /\ \A i \in 1..par_n : par_child[i] = "done"
    /\ final_results' = [k \in 1..par_n |-> FinalResult(par_results[par_order[k]])]
    /\ active_agents' = EmptyMap
    /\ par_pc' = "returned"
    /\ UNCHANGED <<par_n, max_concurrent, agents, semaphore, par_child,
                   par_results, par_order>>
    /\ UNCHANGED <<now, par_started>>
    /\ UNCHANGED <<seqVars, depVars, obsVars>>

\* gather is complete: lines 71-88 run without suspension.
ParJoin ==
    /\ par_pc = "gather"
    /\ \A i \in 1..par_n : par_child[i] = "done"
    /\ final_results' = [i \in 1..par_n |-> FinalResult(par_results[i])]
    /\ active_agents' = EmptyMap
    /\ par_pc' = "returned"
    /\ UNCHANGED <<par_n, max_concurrent, agents, semaphore, par_child,
                   par_results, par_order>>
    /\ UNCHANGED <<now, par_started>>
    /\ UNCHANGED <<seqVars, depVars, obsVars>>

\* Lines 41-88 with tasks = []: no factory call is awaited and gather of
\* nothing is done at once, so the call runs to its return in one step,
\* clear() of line 85 included.
ParReturnEmpty ==
    /\ par_pc = "create"
    /\ par_n = 0
    /\ ParLaunchFields
    /\ final_results' = << >>
    /\ active_agents' = EmptyMap
    /\ par_pc' = "returned"
    /\ UNCHANGED <<par_n, max_concurrent, agents, par_order>>
    /\ UNCHANGED now
    /\ UNCHANGED <<seqVars, depVars, obsVars>>

ParNext ==
    \/ ParCreate
    \/ ParCreateFail
    \/ ParLaunch
    \/ ParReturnEmpty
    \/ \E i \in DOMAIN par_child : ParAcquire(i)
    \/ \E i \in DOMAIN par_child : \E o \in RunOutcomes(agents[i]) : ParRunEnd(i, o)
    \/ ParJoin

ParInit == active_agents = EmptyMap /\ ParCall /\ SeqOff /\ DepOff /\ ObsOff
SpecPar == ParInit /\ [][ParNext]_vars

\* ------------------------------------------- spawn_parallel: properties
\* Positions whose run() has started and not ended.
ParInFlight == {i \in DOMAIN par_child : par_child[i] = "run"}
ParWaiting == {i \in DOMAIN par_child : par_child[i] = "wait"}
ParDone == {i \in DOMAIN par_child : par_child[i] = "done"}
EngineFailureSummary == "Agent failed with exception"

\* C1: with max_concurrent = N >= 1, the number of units whose run() has
\* started and not yet ended is at most N in every reachable state.
C1_ConcurrencyBound ==
    max_concurrent >= 1 => Cardinality(ParInFlight) <= max_concurrent

\* C1 witness: the gate is full while another unit waits behind it.
C1_Witness ==
    /\ max_concurrent >= 1
    /\ Cardinality(ParInFlight) = max_concurrent
    /\ ParWaiting # {}
    /\ ParDone # {}

\* C2: when spawn_parallel returns, the list has one element per input task
\* and the element at position i stems from the unit of task i (its own
\* Result, or the engine's failure Result carrying that unit's exception
\* message), whatever the order in which the runs ended.
C2_OrderPreserved ==
    par_pc = "returned" =>
        /\ Len(final_results) = par_n
        /\ \A i \in 1..par_n :
               final_results[i].type = "Result" =>
                   \/ final_results[i].summary = SummaryOf(TaskSpec(i).description)
                   \/ /\ final_results[i].summary = EngineFailureSummary
                      /\ final_results[i].error = MessageOf(TaskSpec(i).description)

\* C2 witness: the call returned with limit k <= N after a later task
\* finished before an earlier one.
C2_Witness ==
    /\ par_pc = "returned"
    /\ par_n >= 2
    /\ max_concurrent >= 1 /\ max_concurrent <= par_n
    /\ \E a, b \in 1..par_n : a < b /\ par_order[a] > par_order[b]
    /\ \A i \in 1..par_n : final_results[i].type = "Result"

\* The precondition of C3: exactly one run() raised an Exception and every
\* other run() returned a success Result.
ExactlyOneRaised(i) ==
    /\ par_results[i].type = "Exception"
    /\ \A j \in (1..par_n) \ {i} :
           par_results[j].type = "Result" /\ par_results[j].success

\* C3: if exactly one of the N runs raises an Exception and the others return
\* success Results, the call does not raise once the units are created; it
\* returns N Results, the one at the raising position being (success=false,
\* the fixed failure summary, error = the exception's message) and every
\* other one being what its unit's run() could return, with success=true.
C3_Isolation ==
    /\ par_pc = "raised" => par_child = << >>
    /\ \A i \in 1..par_n :
           (par_pc = "returned" /\ ExactlyOneRaised(i)) =>
               /\ Len(final_results) = par_n
               /\ final_results[i] =
                      SubAgentResult(FALSE, EngineFailureSummary,
                                     MessageOf(TaskSpec(i).description))
               /\ \A j \in (1..par_n) \ {i} :
                      /\ final_results[j] = par_results[j]
                      /\ final_results[j] \in RunOutcomes(agents[j])
                      /\ final_results[j].type = "Result"
                      /\ final_results[j].success

\* C3 witness: a returned call of three tasks whose middle run() raised.
C3_Witness ==
    /\ par_pc = "returned"
    /\ par_n >= 3
    /\ ExactlyOneRaised(2)

\* C8: the permits taken from the gate are exactly those of the runs in
\* flight, whether earlier runs returned or raised, and once every unit has
\* finished all max_concurrent permits are free again.
C8_PermitAccounting ==
    par_pc \in {"gather", "returned"} =>
        /\ max_concurrent - semaphore = Cardinality(ParInFlight)
        /\ (\A i \in 1..par_n : par_child[i] = "done") => semaphore = max_concurrent

\* C8 witness: a run raised, another is still in flight, and the raising
\* unit's permit is already back.
C8_Witness ==
    /\ par_pc = "gather"
    /\ max_concurrent >= 2
    /\ \E i \in ParDone : Raised(par_results[i])
    /\ ParInFlight # {}
    /\ semaphore = max_concurrent - Cardinality(ParInFlight)


\* ======================================================= spawn_sequential
\* The call spawn_sequential(tasks) has been made.
SeqCall ==
    /\ seq_pc = "create"
    /\ seq_n \in 0..MaxSeqTasks
    /\ seq_idx = 1
    /\ accumulated_context = << >>
    /\ seq_results = << >>
    /\ seq_agents = << >>
    /\ seq_running = {}
    /\ seq_finished = EmptyMap
    /\ seq_exc = NoException

\* Line 109: accumulated_context + "\n\n" + task_spec.get('context', '').
SeqContext(acc, i) == acc \o <<"\n\n">> \o TaskSpec(i).context

\* Line 126: f"\n\nPrevious step result:\n{result.summary}".
PreviousStepLabel(result) == <<"\n\nPrevious step result:\n", result.summary>>

\* Variant: the loop starts the unit and moves on without awaiting its run.
SeqCreateEager ==
    /\ seq_pc = "create"
    /\ seq_idx <= seq_n
    /\ LET agent == SubAgent(TaskSpec(seq_idx).description,
                             SeqContext(accumulated_context, seq_idx))
       IN /\ seq_agents' = Append(seq_agents, agent)
          /\ active_agents' = MapPut(active_agents, AgentKey(seq_idx), agent)
    /\ seq_running' = seq_running \cup {seq_idx}
    /\ seq_idx' = IF seq_idx < seq_n THEN seq_idx + 1 ELSE seq_idx
    /\ seq_pc' = IF seq_idx < seq_n THEN "create" ELSE "run"
    /\ UNCHANGED <<seq_n, accumulated_context, seq_results, seq_finished, seq_exc>>
    /\ UNCHANGED <<parVars, depVars, obsVars>>

\* Lines 109-121 of one iteration: the factory returns the unit, the unit
\* is registered and its run() starts.
SeqCreate ==
    /\ seq_pc = "create"
    /\ seq_idx <= seq_n
    /\ LET agent == SubAgent(TaskSpec(seq_idx).description,
                             SeqContext(accumulated_context, seq_idx))
       IN /\ seq_agents' = Append(seq_agents, agent)
          /\ active_agents' = MapPut(active_agents, AgentKey(seq_idx), agent)
    /\ seq_running' = seq_running \cup {seq_idx}
    /\ seq_pc' = "run"
    /\ UNCHANGED <<seq_n, seq_idx, accumulated_context, seq_results,
                   seq_finished, seq_exc>>
    /\ UNCHANGED <<parVars, depVars, obsVars>>

\* Lines 112-116: the factory call raises and the exception leaves the call.
SeqCreateFail ==
    /\ seq_pc = "create"
    /\ seq_idx <= seq_n
    /\ seq_pc' = "raised"
    /\ seq_exc' = FactoryError
    /\ UNCHANGED <<active_agents, seq_n, seq_idx, accumulated_context,
                   seq_results, seq_agents, seq_running, seq_finished>>
    /\ UNCHANGED <<parVars, depVars, obsVars>>

\* Variant: every Result is threaded forward, failed ones too.
SeqRunReturnAlwaysThread(o) ==
    /\ seq_pc = "run"
    /\ seq_idx \in seq_running
    /\ o \in RunOutcomes(seq_agents[seq_idx])
    /\ Returned(o)
    /\ seq_running' = seq_running \ {seq_idx}
    /\ seq_finished' = MapPut(seq_finished, seq_idx, o)
    /\ seq_results' = Append(seq_results, o)
    /\ accumulated_context' = accumulated_context \o PreviousStepLabel(o)
    /\ active_agents' = MapDel(active_agents, AgentKey(seq_idx))
    /\ seq_idx' = seq_idx + 1
    /\ seq_pc' = IF seq_idx = seq_n THEN "returned" ELSE "create"
    /\ UNCHANGED <<seq_n, seq_agents, seq_exc>>
    /\ UNCHANGED <<parVars, depVars, obsVars>>

\* Variant: a Result with success=false ends the batch.
SeqRunReturnStopOnFailure(o) ==
    /\ seq_pc = "run"
    /\ seq_idx \in seq_running
    /\ o \in RunOutcomes(seq_agents[seq_idx])
    /\ Returned(o)
    /\ seq_running' = seq_running \ {seq_idx}
    /\ seq_finished' = MapPut(seq_finished, seq_idx, o)
    /\ seq_results' = Append(seq_results, o)
    /\ accumulated_context' =
           IF o.success THEN accumulated_context \o PreviousStepLabel(o)
           ELSE accumulated_context
    /\ active_agents' = MapDel(active_agents, AgentKey(seq_idx))
    /\ seq_idx' = seq_idx + 1
    /\ seq_pc' = IF seq_idx = seq_n \/ ~o.success THEN "returned" ELSE "create"
    /\ UNCHANGED <<seq_n, seq_agents, seq_exc>>
    /\ UNCHANGED <<parVars, depVars, obsVars>>

\* Variant: the entry of a finished unit is left in the registry.
SeqRunReturnKeep(o) ==
    /\ seq_pc = "run"
    /\ seq_idx \in seq_running
    /\ o \in RunOutcomes(seq_agents[seq_idx])
    /\ Returned(o)
    /\ seq_running' = seq_running \ {seq_idx}
    /\ seq_finished' = MapPut(seq_finished, seq_idx, o)
    /\ seq_results' = Append(seq_results, o)
    /\ accumulated_context' =
           IF o.success THEN accumulated_context \o PreviousStepLabel(o)
           ELSE accumulated_context
    /\ seq_idx' = seq_idx + 1
    /\ seq_pc' = IF seq_idx = seq_n THEN "returned" ELSE "create"
    /\ UNCHANGED <<active_agents, seq_n, seq_agents, seq_exc>>
    /\ UNCHANGED <<parVars, depVars, obsVars>>

\* Lines 121-134, run() returns a Result: it is appended, a success is
\* threaded into accumulated_context, the registry entry is deleted (a
\* missing key makes del raise KeyError), and the loop goes on or the call
\* returns.
SeqRunReturn(o) ==
    /\ seq_pc = "run"
    /\ seq_idx \in seq_running
    /\ o \in RunOutcomes(seq_agents[seq_idx])
    /\ Returned(o)
    /\ seq_running' = seq_running \ {seq_idx}
    /\ seq_finished' = MapPut(seq_finished, seq_idx, o)
    /\ seq_results' = Append(seq_results, o)
    /\ accumulated_context' =
           IF o.success THEN accumulated_context \o PreviousStepLabel(o)
           ELSE accumulated_context
    /\ IF AgentKey(seq_idx) \in DOMAIN active_agents
       THEN /\ active_agents' = MapDel(active_agents, AgentKey(seq_idx))
            /\ seq_idx' = seq_idx + 1
            /\ seq_pc' = IF seq_idx = seq_n THEN "returned" ELSE "create"
            /\ seq_exc' = seq_exc
       ELSE /\ active_agents' = active_agents
            /\ seq_idx' = seq_idx
            /\ seq_pc' = "raised"
            /\ seq_exc' = KeyErrorObj
    /\ UNCHANGED <<seq_n, seq_agents>>
    /\ UNCHANGED <<parVars, depVars, obsVars>>

\* Line 121, run() raises: nothing catches it, the exception leaves
\* spawn_sequential with the unit still registered.
SeqRunRaise(o) ==
    /\ seq_pc = "run"
    /\ seq_idx \in seq_running
    /\ o \in RunOutcomes(seq_agents[seq_idx])
    /\ Raised(o)
    /\ seq_running' = seq_running \ {seq_idx}
    /\ seq_finished' = MapPut(seq_finished, seq_idx, o)
    /\ seq_pc' = "raised"
    /\ seq_exc' = o
    /\ UNCHANGED <<active_agents, seq_n, seq_idx, accumulated_context,
                   seq_results, seq_agents>>
    /\ UNCHANGED <<parVars, depVars, obsVars>>

\* An empty tasks list: the loop body never runs, lines 133-134.
SeqReturnEmpty ==
    /\ seq_pc = "create"
    /\ seq_idx > seq_n
    /\ seq_pc' = "returned"
    /\ UNCHANGED <<active_agents, seq_n, seq_idx, accumulated_context,
                   seq_results, seq_agents, seq_running, seq_finished, seq_exc>>
    /\ UNCHANGED <<parVars, depVars, obsVars>>

SeqOutcomes == IF seq_pc = "run" THEN RunOutcomes(seq_agents[seq_idx]) ELSE {}

SeqNext ==
    \/ SeqCreate
    \/ SeqCreateFail
    \/ \E o \in SeqOutcomes : SeqRunReturn(o)
    \/ \E o \in SeqOutcomes : SeqRunRaise(o)
    \/ SeqReturnEmpty

SeqInit == active_agents = EmptyMap /\ ParOff /\ SeqCall /\ DepOff /\ ObsOff
SpecSeq == SeqInit /\ [][SeqNext]_vars

\* ----------------------------------------- spawn_sequential: properties
\* Positions whose unit the factory has produced.
SeqCreated == 1..Len(seq_agents)
SeqEnded == DOMAIN seq_finished

\* C6: the unit of a task exists only when the run() of every earlier task
\* has ended, units are created in input order, a run() in flight belongs
\* to a created unit, and at most one run() is in flight.
C6_SequentialOrder ==
    /\ Cardinality(seq_running) <= 1
    /\ seq_running \subseteq SeqCreated
    /\ \A i \in SeqCreated :
           /\ seq_agents[i].task = TaskSpec(i).description
           /\ \A j \in 1..(i - 1) : j \in SeqEnded /\ j \notin seq_running

\* C6 witness: task 2 is running after task 1 ended; task 3 has no unit yet.
C6_Witness ==
    /\ seq_n >= 3
    /\ seq_running = {2}
    /\ 1 \in SeqEnded
    /\ Len(seq_agents) = 2

\* The accumulated context the claim describes after the first k tasks: one
\* labeled summary per earlier run that returned success=true, in order.
RECURSIVE ExpectedAccumulated(_)
ExpectedAccumulated(k) ==
    IF k = 0 THEN << >>
    ELSE ExpectedAccumulated(k - 1) \o
         (IF seq_finished[k].success
          THEN <<"\n\nPrevious step result:\n", seq_finished[k].summary>>
          ELSE << >>)

\* C7: the context the factory gets for task i is the accumulated context
\* (one labeled summary for each earlier task whose Result had success=true,
\* in input order, nothing for the failed ones), a blank-line separator,
\* then task i's own context.
C7_ContextChaining ==
    \A i \in SeqCreated :
        seq_agents[i].context =
            ExpectedAccumulated(i - 1) \o <<"\n\n">> \o TaskSpec(i).context

\* C7 witness: the third unit exists after one success and one failure.
C7_Witness ==
    /\ Len(seq_agents) >= 3
    /\ seq_finished[1].success
    /\ ~seq_finished[2].success

\* C9 (as claimed): a run() of spawn_sequential that raises an Exception is
\* captured as a Result with success=false at its index and the call goes
\* on instead of raising.
C9_RunExceptionCaptured ==
    \A i \in SeqEnded :
        seq_finished[i].type = "Exception" =>
            /\ seq_pc # "raised"
            /\ Len(seq_results) >= i
            /\ seq_results[i].type = "Result"
            /\ ~seq_results[i].success


\* ================================================ spawn_with_dependencies
\* The TaskIds of a graph of n tasks.
TaskIds(n) == {DepIds[k] : k \in 1..n}
DepIndex(t) == CHOOSE k \in 1..Len(DepIds) : DepIds[k] = t

\* task_spec.get('dependencies', []): no dependency, or one TaskId of the
\* graph (the task itself included) or a TaskId that is not in the graph.
DependencyLists(ids) == {<< >>} \cup {<<d>> : d \in ids \cup {Dangling}}

\* The task_spec submitted under TaskId t with dependency list deps.
DepTaskSpec(t, deps) ==
    [description |-> DepTaskNames[DepIndex(t)],
     context |-> IF DepIndex(t) % 2 = 1 THEN <<"ctx", t>> ELSE << >>,
     dependencies |-> deps]

\* The graphs submitted: up to MaxDepTasks tasks, any dependency lists.
TaskGraphs ==
    UNION { { [t \in TaskIds(n) |-> DepTaskSpec(t, deps[t])] :
                deps \in [TaskIds(n) -> DependencyLists(TaskIds(n))] } :
            n \in 0..MaxDepTasks }

\* Nothing has been called yet for a task.
NoCalls == [create_agent |-> 0, run |-> 0]
\* One more call of create_agent (line 167) or of run() (line 174) for t.
Called(calls, t, what) == [calls EXCEPT ![t][what] = @ + 1]

\* The call spawn_with_dependencies(task_graph) has been made and gather has
\* scheduled one execute_task per item (lines 150-184).
DepLaunched ==
    /\ dep_pc = "gather"
    /\ dep_results = EmptyMap
    /\ completed = {}
    /\ dep_watch = [t \in DOMAIN task_graph |-> "poll"]
    /\ dep_agents = EmptyMap
    /\ dep_exc = NoException
    /\ dep_calls = [t \in DOMAIN task_graph |-> NoCalls]
DepCall == task_graph \in TaskGraphs /\ DepLaunched

\* Variant: a dependency that names no task of the graph is not waited for.
DepsCompletedKnown(deps) ==
    \A k \in 1..Len(deps) :
        deps[k] \in DOMAIN task_graph => deps[k] \in completed

\* Line 157: all(dep in completed for dep in deps).
DepsCompleted(deps) == \A k \in 1..Len(deps) : deps[k] \in completed

\* Line 164: f"\n\nDependency {dep} result:\n{results[dep].summary}".
DependencyLabel(dep, result) ==
    <<"\n\nDependency ", dep, " result:\n", result.summary>>

\* Variant: every listed dependency with a stored Result is labelled.
RECURSIVE BuildContextAll(_, _, _)
BuildContextAll(context, deps, k) ==
    IF k = 0 THEN context
    ELSE LET dep == deps[k]
             before == BuildContextAll(context, deps, k - 1)
         IN IF dep \in DOMAIN dep_results
            THEN before \o DependencyLabel(dep, dep_results[dep])
            ELSE before

\* Lines 161-164: the context after the first k dependencies.
RECURSIVE BuildContext(_, _, _)
BuildContext(context, deps, k) ==
    IF k = 0 THEN context
    ELSE LET dep == deps[k]
             before == BuildContext(context, deps, k - 1)
         IN IF dep \in DOMAIN dep_results /\ dep_results[dep].success
            THEN before \o DependencyLabel(dep, dep_results[dep])
            ELSE before

\* gather without return_exceptions: the first exception of a child leaves
\* the call; the other children are not cancelled.
DepPropagate(exc) ==
    /\ dep_pc' = IF dep_pc = "gather" THEN "raised" ELSE dep_pc
    /\ dep_exc' = IF dep_pc = "gather" THEN exc ELSE dep_exc

\* Variant: the watcher does not wait for its dependencies.
DepProceedNoWait(t) ==
    /\ dep_watch[t] = "poll"
    /\ LET spec == task_graph[t]
           context == BuildContext(spec.context, spec.dependencies,
                                   Len(spec.dependencies))
       IN dep_agents' = MapPut(dep_agents, t, SubAgent(spec.description, context))
    /\ dep_watch' = [dep_watch EXCEPT ![t] = "create"]
    /\ dep_calls' = Called(dep_calls, t, "create_agent")
    /\ UNCHANGED <<active_agents, dep_pc, task_graph, dep_results, completed,
                   dep_exc>>
    /\ UNCHANGED <<parVars, seqVars, obsVars>>

\* Variant: a task's own TaskId in its dependency list is not waited for.
DepProceedSelfSatisfied(t) ==
    /\ dep_watch[t] = "poll"
    /\ \A k \in 1..Len(task_graph[t].dependencies) :
           task_graph[t].dependencies[k] \in completed \cup {t}
    /\ LET spec == task_graph[t]
           context == BuildContext(spec.context, spec.dependencies,
                                   Len(spec.dependencies))
       IN dep_agents' = MapPut(dep_agents, t, SubAgent(spec.description, context))
    /\ dep_watch' = [dep_watch EXCEPT ![t] = "create"]
    /\ dep_calls' = Called(dep_calls, t, "create_agent")
    /\ UNCHANGED <<active_agents, dep_pc, task_graph, dep_results, completed,
                   dep_exc>>
    /\ UNCHANGED <<parVars, seqVars, obsVars>>

\* Variant: a watcher also waits for the tasks submitted before its own to
\* have left the poll loop.
DepProceedInOrder(t) ==
    /\ dep_watch[t] = "poll"
    /\ DepsCompleted(task_graph[t].dependencies)
    /\ \A u \in DOMAIN task_graph :
           DepIndex(u) < DepIndex(t) => dep_watch[u] # "poll"
    /\ LET spec == task_graph[t]
           context == BuildContext(spec.context, spec.dependencies,
                                   Len(spec.dependencies))
       IN dep_agents' = MapPut(dep_agents, t, SubAgent(spec.description, context))
    /\ dep_watch' = [dep_watch EXCEPT ![t] = "create"]
    /\ dep_calls' = Called(dep_calls, t, "create_agent")
    /\ UNCHANGED <<active_agents, dep_pc, task_graph, dep_results, completed,
                   dep_exc>>
    /\ UNCHANGED <<parVars, seqVars, obsVars>>

\* Lines 156-171: the poll loop ends because every dependency is in
\* completed; the context is built and the factory is called.
DepProceed(t) ==
    /\ dep_watch[t] = "poll"
    /\ DepsCompleted(task_graph[t].dependencies)
    /\ LET spec == task_graph[t]
           context == BuildContext(spec.context, spec.dependencies,
                                   Len(spec.dependencies))
       IN dep_agents' = MapPut(dep_agents, t, SubAgent(spec.description, context))
    /\ dep_watch' = [dep_watch EXCEPT ![t] = "create"]
    /\ dep_calls' = Called(dep_calls, t, "create_agent")
    /\ UNCHANGED <<active_agents, dep_pc, task_graph, dep_results, completed,
                   dep_exc>>
    /\ UNCHANGED <<parVars, seqVars, obsVars>>

\* Lines 167-174: the factory returns the unit and its run() starts.
DepCreate(t) ==
    /\ dep_watch[t] = "create"
    /\ dep_watch' = [dep_watch EXCEPT ![t] = "run"]
    /\ dep_calls' = Called(dep_calls, t, "run")
    /\ UNCHANGED <<active_agents, dep_pc, task_graph, dep_results, completed,
                   dep_agents, dep_exc>>
    /\ UNCHANGED <<parVars, seqVars, obsVars>>

\* Lines 167-171: the factory call raises inside execute_task.
DepCreateFail(t) ==
    /\ dep_watch[t] = "create"
    /\ dep_watch' = [dep_watch EXCEPT ![t] = "create_failed"]
    /\ DepPropagate(FactoryError)
    /\ UNCHANGED <<active_agents, dep_calls, task_graph, dep_results, completed, dep_agents>>
    /\ UNCHANGED <<parVars, seqVars, obsVars>>

\* Variant: only a Result with success=true marks the TaskId complete.
DepRunReturnSuccessOnly(t, o) ==
    /\ dep_watch[t] = "run"
    /\ o \in RunOutcomes(dep_agents[t])
    /\ Returned(o)
    /\ dep_results' = MapPut(dep_results, t, o)
    /\ completed' = IF o.success THEN completed \cup {t} ELSE completed
    /\ dep_watch' = [dep_watch EXCEPT ![t] = "done"]
    /\ UNCHANGED <<active_agents, dep_calls, dep_pc, task_graph, dep_agents, dep_exc>>
    /\ UNCHANGED <<parVars, seqVars, obsVars>>

\* Variant: the TaskId is marked complete before its Result is stored.
DepRunReturnMarkedFirst(t, o) ==
    /\ dep_watch[t] = "run"
    /\ o \in RunOutcomes(dep_agents[t])
    /\ Returned(o)
    /\ completed' = completed \cup {t}
    /\ dep_watch' = [dep_watch EXCEPT ![t] = "done"]
    /\ UNCHANGED <<active_agents, dep_calls, dep_pc, task_graph, dep_results,
                   dep_agents, dep_exc>>
    /\ UNCHANGED <<parVars, seqVars, obsVars>>

\* Variant: the Result is stored but the TaskId is not marked complete.
DepRunReturnUnmarked(t, o) ==
    /\ dep_watch[t] = "run"
    /\ o \in RunOutcomes(dep_agents[t])
    /\ Returned(o)
    /\ dep_results' = MapPut(dep_results, t, o)
    /\ dep_watch' = [dep_watch EXCEPT ![t] = "done"]
    /\ UNCHANGED <<active_agents, dep_calls, dep_pc, task_graph, completed,
                   dep_agents, dep_exc>>
    /\ UNCHANGED <<parVars, seqVars, obsVars>>

\* Lines 174-178: run() returns a Result; it is stored under the TaskId and
\* the TaskId is marked complete, with no suspension in between.
DepRunReturn(t, o) ==
    /\ dep_watch[t] = "run"
    /\ o \in RunOutcomes(dep_agents[t])
    /\ Returned(o)
    /\ dep_results' = MapPut(dep_results, t, o)
    /\ completed' = completed \cup {t}
    /\ dep_watch' = [dep_watch EXCEPT ![t] = "done"]
    /\ UNCHANGED <<active_agents, dep_calls, dep_pc, task_graph, dep_agents, dep_exc>>
    /\ UNCHANGED <<parVars, seqVars, obsVars>>

\* Variant: a watcher whose run() raised starts execute_task over.
DepRunRaiseRetry(t, o) ==
    /\ dep_watch[t] = "run"
    /\ o \in RunOutcomes(dep_agents[t])
    /\ Raised(o)
    /\ dep_watch' = [dep_watch EXCEPT ![t] = "poll"]
    /\ UNCHANGED <<active_agents, dep_calls, dep_pc, task_graph, dep_results,
                   completed, dep_agents, dep_exc>>
    /\ UNCHANGED <<parVars, seqVars, obsVars>>

\* Line 174: run() raises; execute_task ends with the exception, nothing is
\* stored and the TaskId is not marked complete.
DepRunRaise(t, o) ==
    /\ dep_watch[t] = "run"
    /\ o \in RunOutcomes(dep_agents[t])
    /\ Raised(o)
    /\ dep_watch' = [dep_watch EXCEPT ![t] = "run_failed"]
    /\ DepPropagate(o)
    /\ UNCHANGED <<active_agents, dep_calls, task_graph, dep_results, completed, dep_agents>>
    /\ UNCHANGED <<parVars, seqVars, obsVars>>

\* Variant: the call returns as soon as one execute_task has returned.
DepJoinFirstCompleted ==
    /\ dep_pc = "gather"
    /\ \E t \in DOMAIN task_graph : dep_watch[t] = "done"
    /\ dep_pc' = "returned"
    /\ UNCHANGED <<active_agents, dep_calls, task_graph, dep_results, completed, dep_watch,
                   dep_agents, dep_exc>>
    /\ UNCHANGED <<parVars, seqVars, obsVars>>

\* Lines 181-187: every execute_task has returned; the call returns results.
DepJoin ==
    /\ dep_pc = "gather"
    /\ \A t \in DOMAIN task_graph : dep_watch[t] = "done"
    /\ dep_pc' = "returned"
    /\ UNCHANGED <<active_agents, dep_calls, task_graph, dep_results, completed, dep_watch,
                   dep_agents, dep_exc>>
    /\ UNCHANGED <<parVars, seqVars, obsVars>>

DepRunning == {t \in DOMAIN dep_watch : dep_watch[t] = "run"}

DepNext ==
    \/ \E t \in DOMAIN dep_watch : DepProceed(t)
    \/ \E t \in DOMAIN dep_watch : DepCreate(t)
    \/ \E t \in DOMAIN dep_watch : DepCreateFail(t)
    \/ \E t \in DepRunning : \E o \in RunOutcomes(dep_agents[t]) : DepRunReturn(t, o)
    \/ \E t \in DepRunning : \E o \in RunOutcomes(dep_agents[t]) : DepRunRaise(t, o)
    \/ DepJoin

DepInit == active_agents = EmptyMap /\ ParOff /\ SeqOff /\ DepCall /\ ObsOff
SpecDep == DepInit /\ [][DepNext]_vars

\* ---------------------------------- spawn_with_dependencies: properties
\* Watchers that have left the poll loop: their unit has been asked of the
\* factory (and possibly run).
DepProceeded == {t \in DOMAIN dep_watch : dep_watch[t] # "poll"}
DepStarted ==
    {t \in DOMAIN dep_watch : dep_watch[t] \in {"run", "done", "run_failed"}}
DependenciesOf(t) ==
    {task_graph[t].dependencies[k] : k \in 1..Len(task_graph[t].dependencies)}

\* C4: a task's unit is asked of the factory, and its run() started, only
\* when the run() of each of its listed dependencies has returned and the
\* dependency has been marked complete.
C4_DependencyGating ==
    \A t \in DepProceeded : \A d \in DependenciesOf(t) :
        /\ d \in completed
        /\ d \in DOMAIN dep_watch
        /\ dep_watch[d] = "done"
        /\ d \in DOMAIN dep_results

\* C4 witness: B depends on A, A's run() has returned and B's is in flight.
C4_Witness ==
    /\ DOMAIN task_graph = {"A", "B"}
    /\ task_graph["A"].dependencies = << >>
    /\ task_graph["B"].dependencies = <<"A">>
    /\ dep_watch["A"] = "done"
    /\ dep_watch["B"] = "run"

\* C5: when spawn_with_dependencies returns, the keys of the mapping are
\* exactly the submitted TaskIds and each key maps to a Result that the
\* run() of that task's own unit returned.
C5_FullCoverage ==
    dep_pc = "returned" =>
        /\ DOMAIN dep_results = DOMAIN task_graph
        /\ \A t \in DOMAIN task_graph :
               /\ dep_results[t].type = "Result"
               /\ dep_results[t].summary = DepSummaryNames[DepIndex(t)]
               /\ dep_results[t] \in RunOutcomes(dep_agents[t])
               /\ dep_agents[t].task = task_graph[t].description

\* C5 witness: a returned call on three tasks, one dependent on another and
\* one independent of both.
C5_Witness ==
    /\ dep_pc = "returned"
    /\ DOMAIN task_graph = {"A", "B", "C"}
    /\ task_graph["A"].dependencies = << >>
    /\ task_graph["B"].dependencies = <<"A">>
    /\ task_graph["C"].dependencies = << >>

\* C10 (as claimed): a run() of spawn_with_dependencies that raises an
\* Exception does not make the call raise; the task gets a Result with
\* success=false in the mapping.
C10_RunExceptionCaptured ==
    /\ ~(dep_pc = "raised" /\ dep_exc.type = "Exception")
    /\ \A t \in DOMAIN dep_watch :
           dep_watch[t] = "run_failed" =>
               t \in DOMAIN dep_results /\ ~dep_results[t].success

\* -------------------------------- spawn_with_dependencies: progress
\* Every TaskId a graph of the progress specification can have.
AllTaskIds == TaskIds(MaxLiveTasks)

\* The steps of the watcher of t, for the fairness conditions: the poll loop
\* wakes every 0.1 s (line 158), an awaited factory call that returns and an
\* awaited run() that ends resume the watcher.
WatcherProceeds(t) == t \in DOMAIN dep_watch /\ DepProceed(t)
WatcherCreates(t) == t \in DOMAIN dep_watch /\ DepCreate(t)
WatcherRunEnds(t) ==
    /\ t \in DepRunning
    /\ \E o \in RunOutcomes(dep_agents[t]) : DepRunReturn(t, o) \/ DepRunRaise(t, o)

\* One step of the watcher of t, whichever position it is at.
WatcherStep(t) == WatcherProceeds(t) \/ WatcherCreates(t) \/ WatcherRunEnds(t)

\* The event loop keeps scheduling every watcher and the caller's gather.
DepFairness ==
    /\ \A t \in AllTaskIds : WF_vars(WatcherStep(t))
    /\ WF_vars(DepJoin)

\* spawn_with_dependencies with a factory whose calls all return a unit.
DepLiveNext ==
    \/ \E t \in DOMAIN dep_watch : DepProceed(t)
    \/ \E t \in DOMAIN dep_watch : DepCreate(t)
    \/ \E t \in DepRunning : \E o \in RunOutcomes(dep_agents[t]) : DepRunReturn(t, o)
    \/ \E t \in DepRunning : \E o \in RunOutcomes(dep_agents[t]) : DepRunRaise(t, o)
    \/ DepJoin

\* The graphs of the progress specification have up to MaxLiveTasks tasks.
DepLiveInit == DepInit /\ Cardinality(DOMAIN task_graph) <= MaxLiveTasks
SpecDepLive == DepLiveInit /\ [][DepLiveNext]_vars /\ DepFairness

\* For a submitted task t: the run() of each of its dependencies has returned
\* a Result (stored at line 175).
AllDependenciesReturned(t) ==
    /\ t \in DOMAIN task_graph
    /\ \A d \in DependenciesOf(t) : d \in DOMAIN dep_results

C12_RaisedDependencySatisfies ==
    \A t \in AllTaskIds : \A d \in AllTaskIds :
        []((/\ t \in DOMAIN task_graph
            /\ d \in DependenciesOf(t)
            /\ d \in DOMAIN dep_watch
            /\ dep_watch[d] = "run_failed")
           => <>(t \in DepStarted))

\* ------------------------------------------- one call of any strategy
\* One orchestration call on a fresh Orchestrator: spawn_parallel,
\* spawn_sequential or spawn_with_dependencies.
CallInit == ParInit \/ SeqInit \/ DepInit
CallNext == ParNext \/ SeqNext \/ DepNext
SpecCall == CallInit /\ [][CallNext]_vars

\* Units whose run() has started (in flight or ended), per strategy.
ParStarted == {i \in DOMAIN par_child : par_child[i] # "wait"}
SeqStarted == seq_running \cup SeqEnded

\* A factory call of the dependency strategy has failed.
DepFactoryFailed == \E t \in DOMAIN dep_watch : dep_watch[t] = "create_failed"

\* C13 (as claimed): once a factory call has failed, the call has raised
\* that failure and no unit of the batch has had, or will have, its run()
\* started.
C13_SetupFailureAtomic ==
    /\ par_pc = "raised" => ParStarted = {}
    /\ seq_exc = FactoryError => (seq_pc = "raised" /\ SeqStarted = {})
    /\ DepFactoryFailed =>
           (dep_pc = "raised" /\ dep_exc = FactoryError /\ DepStarted = {})

\* C14 (as claimed): when a call has completed by exception, the registry
\* is empty.
C14_RegistryEmptyAfterException ==
    (par_pc = "raised" \/ seq_pc = "raised" \/ dep_pc = "raised")
        => active_agents = EmptyMap

\* C15 (as claimed): every unit whose run() is in flight has an entry in
\* the registry, under each strategy.
C15_RunningUnitsRegistered ==
    /\ \A i \in ParInFlight :
           /\ AgentKey(i) \in DOMAIN active_agents
           /\ active_agents[AgentKey(i)] = agents[i]
    /\ \A i \in seq_running :
           /\ AgentKey(i) \in DOMAIN active_agents
           /\ active_agents[AgentKey(i)] = seq_agents[i]
    /\ \A t \in DepRunning :
           \E k \in DOMAIN active_agents : active_agents[k] = dep_agents[t]

\* ------------------------------------- get_active_agents, get_status
\* Variant: get_active_agents returns the live key view of the registry.
GetActiveAgentsView ==
    /\ listing' = [kind |-> "view", keys |-> {}]
    /\ UNCHANGED <<active_agents, parVars, seqVars, depVars, status>>

\* Lines 189-195: list(self.active_agents.keys()) builds a new list from
\* the keys the registry has at the call. No await: one step.
GetActiveAgents ==
    /\ listing' = [kind |-> "list", keys |-> DOMAIN active_agents]
    /\ UNCHANGED <<active_agents, parVars, seqVars, depVars, status>>

\* Lines 197-206: a new dict with len(self.active_agents) and a new list of
\* the keys.
GetStatus ==
    /\ status' = [kind |-> "dict",
                  active_agents |-> Cardinality(DOMAIN active_agents),
                  agent_ids |-> DOMAIN active_agents]
    /\ UNCHANGED <<active_agents, parVars, seqVars, depVars, listing>>

\* What the caller reads in the object get_active_agents() returned: a list
\* holds its own keys, a view shows the registry's.
ListingContents ==
    IF listing.kind = "view" THEN DOMAIN active_agents ELSE listing.keys

\* One call of any strategy on batches of up to MaxObsTasks tasks, with the
\* caller's other coroutines calling the two introspection methods at any
\* point.
ObsInit ==
    /\ CallInit
    /\ par_n <= MaxObsTasks
    /\ seq_n <= MaxObsTasks
    /\ Cardinality(DOMAIN task_graph) <= MaxObsTasks
ObsNext == CallNext \/ GetActiveAgents \/ GetStatus
SpecObs == ObsInit /\ [][ObsNext]_vars

\* C16: a step in which get_active_agents() or get_status() returns leaves
\* the registry and the state of every strategy unchanged; the list
\* get_active_agents() returns holds the registry's keys at the call and no
\* later step changes it; the count in what get_status() returns is the
\* size of the key set in it.
C16_IntrospectionReadOnly ==
    /\ [][(listing' # listing \/ status' # status)
            => UNCHANGED <<active_agents, parVars, seqVars, depVars>>]_vars
    /\ [][listing' # listing => ListingContents' = DOMAIN active_agents']_vars
    /\ [][listing' = listing => ListingContents' = ListingContents]_vars
    /\ [](status.kind = "dict"
            => status.active_agents = Cardinality(status.agent_ids))

\* C16 witness: the registry has changed since get_active_agents() returned
\* a list of two keys, and get_status() has reported a non-empty registry.
C16_Witness ==
    /\ listing.kind = "list"
    /\ Cardinality(listing.keys) = 2
    /\ listing.keys # DOMAIN active_agents
    /\ status.kind = "dict"
    /\ status.active_agents = 1

\* ------------------------------- spawn_with_dependencies: call counts
\* C17: for every task of the graph, create_agent is called at most once
\* and run() at most once; when the call has returned, each has been called
\* exactly once.
C17_CreatedAndRunOnce ==
    \A t \in DOMAIN dep_calls :
        /\ dep_calls[t].create_agent <= 1
        /\ dep_calls[t].run <= 1
        /\ dep_calls[t].run <= dep_calls[t].create_agent
        /\ dep_pc = "returned" =>
               (dep_calls[t].create_agent = 1 /\ dep_calls[t].run = 1)

\* C17 witness: the call has returned for a chain C -> B -> A.
C17_Witness ==
    /\ dep_pc = "returned"
    /\ DOMAIN task_graph = {"A", "B", "C"}
    /\ task_graph["B"].dependencies = <<"A">>
    /\ task_graph["C"].dependencies = <<"B">>
    /\ \A t \in DOMAIN dep_calls : dep_calls[t] = [create_agent |-> 1, run |-> 1]

\* ---------------------- spawn_with_dependencies: cycles, absent TaskIds
\* The tasks of the graph that the tasks of S list as dependencies, directly
\* or through up to n further tasks.
RECURSIVE ReachIn(_, _)
ReachIn(S, n) ==
    IF n = 0 THEN S
    ELSE ReachIn(S \cup {d \in DOMAIN task_graph :
                            \E u \in S : d \in DependenciesOf(u)}, n - 1)
\* The tasks t depends on, directly or transitively.
Reach(t) ==
    ReachIn({d \in DOMAIN task_graph : d \in DependenciesOf(t)},
            Cardinality(DOMAIN task_graph))
OnCycle == {t \in DOMAIN task_graph : t \in Reach(t)}
HasDangling == {t \in DOMAIN task_graph :
                   \E d \in DependenciesOf(t) : d \notin DOMAIN task_graph}
\* Tasks on a cycle or depending on one; tasks listing an absent TaskId or
\* depending on one that does.
CycleBlocked ==
    {t \in DOMAIN task_graph : (Reach(t) \cup {t}) \cap OnCycle # {}}
DanglingBlocked ==
    {t \in DOMAIN task_graph : (Reach(t) \cup {t}) \cap HasDangling # {}}
Unblocked == DOMAIN task_graph \ (CycleBlocked \cup DanglingBlocked)

\* Watchers whose execute_task has ended, and those ended by an exception.
DepEnded ==
    {t \in DOMAIN dep_watch :
        dep_watch[t] \in {"done", "create_failed", "run_failed"}}
DepFailed ==
    {t \in DOMAIN dep_watch : dep_watch[t] \in {"create_failed", "run_failed"}}
\* The watcher of t is in its poll loop and nothing was called for it.
InPollLoop(t) == dep_watch[t] = "poll" /\ dep_calls[t] = NoCalls

\* spawn_with_dependencies with a factory that may fail, under the same
\* scheduling: a watcher at the factory call or in run() eventually leaves.
SpecDepFair == DepLiveInit /\ [][DepNext]_vars /\ DepFairness

C19_DanglingNeverReturnsNorRaises ==
    HasDangling # {} =>
        /\ dep_pc = "gather"
        /\ \A t \in HasDangling : InPollLoop(t)

\* C19 (amended): when a task lists a TaskId absent from the graph, that
\* TaskId is never in completed, the task and the tasks depending on it
\* stay in the poll loop with no unit created or run, and the call never
\* returns; it raises only when the factory call or the run() of a task
\* outside them has raised.
C19_DanglingBlocksItsDependents ==
    HasDangling # {} =>
        /\ Dangling \notin completed
        /\ \A t \in DanglingBlocked : InPollLoop(t)
        /\ dep_pc # "returned"
        /\ dep_pc = "raised" => DepFailed \ DanglingBlocked # {}

\* C19 witness: C waits for B and B for the absent TaskId, both in the poll
\* loop, after the run() of A has raised out of the call.
C19_Witness ==
    /\ DOMAIN task_graph = {"A", "B", "C"}
    /\ task_graph["A"].dependencies = << >>
    /\ task_graph["B"].dependencies = <<Dangling>>
    /\ task_graph["C"].dependencies = <<"B">>
    /\ dep_watch["A"] = "run_failed"
    /\ dep_pc = "raised"
    /\ InPollLoop("B")
    /\ InPollLoop("C")

\* C20 (as claimed): a graph with a cycle or an absent dependency TaskId is
\* rejected before any watcher is launched: the call has raised an
\* invalid-dependency-graph error and no unit is created or run.
C20_InvalidGraphRejected ==
    (OnCycle # {} \/ HasDangling # {}) =>
        /\ dep_pc = "raised"
        /\ dep_exc.type = "InvalidDependencyGraph"
        /\ \A t \in DOMAIN task_graph : InPollLoop(t)

\* ---------------------------- spawn_with_dependencies: termination
\* C21: for a graph with no cycle and no absent dependency TaskId, in every
\* fairly scheduled run in which no factory call and no run() raises, the
\* call eventually returns.
C21_AcyclicGraphReturns ==
    (OnCycle = {} /\ HasDangling = {})
        => <>(dep_pc = "returned" \/ DepFailed # {})

\* C21 witness: the call has returned for B -> A with nothing raised.
C21_Witness ==
    /\ DOMAIN task_graph = {"A", "B"}
    /\ task_graph["A"].dependencies = << >>
    /\ task_graph["B"].dependencies = <<"A">>
    /\ DepFailed = {}
    /\ dep_pc = "returned"

\* --------------------------------- two calls in flight on one engine
\* spawn_parallel and spawn_sequential have both been called on the same
\* Orchestrator (two coroutines of the caller), each with up to
\* MaxPairTasks tasks; their steps interleave at the awaits.
PairInit ==
    /\ active_agents = EmptyMap
    /\ ParCall /\ par_n <= MaxPairTasks
    /\ SeqCall /\ seq_n <= MaxPairTasks
    /\ DepOff /\ ObsOff
PairNext == ParNext \/ SeqNext
SpecPair == PairInit /\ [][PairNext]_vars

\* The entries a call has registered and not yet removed itself:
\* spawn_parallel keeps every created unit until its clear() (line 85),
\* spawn_sequential keeps the unit whose run() is in flight (lines 118-129).
ParOwnEntries ==
    IF par_pc \in {"create", "gather"} THEN 1..Len(agents) ELSE {}
SeqOwnEntries == seq_running

\* C22 (as claimed): while both calls are in flight, every unit a call has
\* registered is listed under its own key until that call completes.
C22_CallsKeepOwnEntries ==
    (par_pc \in {"create", "gather"} /\ seq_pc \in {"create", "run"}) =>
        /\ \A i \in ParOwnEntries :
               /\ AgentKey(i) \in DOMAIN active_agents
               /\ active_agents[AgentKey(i)] = agents[i]
        /\ \A i \in SeqOwnEntries :
               /\ AgentKey(i) \in DOMAIN active_agents
               /\ active_agents[AgentKey(i)] = seq_agents[i]

\* C23 (as claimed): spawn_parallel with an empty task list returns an
\* empty list and none of its steps changes the registry, whatever another
\* call has put in it.
C23_EmptyParallelLeavesRegistry ==
    /\ [][(par_n = 0 /\ par_pc' # par_pc)
            => active_agents' = active_agents]_vars
    /\ []((par_n = 0 /\ par_pc = "returned") => final_results = << >>)

\* ------------------------------------- spawn_parallel: a wide gate
\* C24: with max_concurrent >= len(tasks) there is a free permit for every
\* unit that has not yet started its run(), so none waits for another to
\* finish: the next unit in line can always enter.
C24_WideGateNeverBlocks ==
    (par_pc = "gather" /\ max_concurrent >= par_n) =>
        /\ semaphore >= Cardinality(ParWaiting)
        /\ \A i \in ParWaiting : FifoTurn(i) => ENABLED ParAcquire(i)

\* C24 witness: three units, three permits, all inside run() at once.
C24_Witness ==
    /\ par_n = 3
    /\ max_concurrent = 3
    /\ ParInFlight = {1, 2, 3}

\* ------------------------------------------- Results in the outputs
\* A Result whose success and error fields disagree.
Inconsistent(r) ==
    /\ r.type = "Result"
    /\ (r.success /\ r.error # "None") \/ (~r.success /\ r.error = "None")

\* C25: a value the engine puts in an output in place of what run() gave is
\* a Result with success=false; a Result returned by run() is in the output
\* of its strategy as returned, consistent or not; and the step that takes
\* a returned Result does not make the call raise.
C25_ResultsPassedThrough ==
    /\ [](par_pc = "returned" =>
            \A i \in 1..par_n :
                /\ Returned(par_results[i]) => final_results[i] = par_results[i]
                /\ final_results[i] # par_results[i] =>
                       (final_results[i].type = "Result"
                        /\ ~final_results[i].success))
    /\ [](\A k \in DOMAIN seq_finished :
            Returned(seq_finished[k]) =>
                (k <= Len(seq_results) /\ seq_results[k] = seq_finished[k]))
    /\ [](\A t \in DOMAIN dep_results :
            /\ dep_results[t] \in RunOutcomes(dep_agents[t])
            /\ Returned(dep_results[t]))
    /\ [][/\ par_pc = "gather" => par_pc' \in {"gather", "returned"}
          /\ Len(seq_results') > Len(seq_results) => seq_pc' # "raised"
          /\ DOMAIN dep_results' # DOMAIN dep_results
                 => UNCHANGED <<dep_pc, dep_exc>>]_vars

\* C25 witness: spawn_parallel has returned a false-success Result, a
\* failure without error and an engine-made failure, in that order.
C25_Witness ==
    /\ par_pc = "returned"
    /\ par_n = 3
    /\ Inconsistent(final_results[1]) /\ final_results[1].success
    /\ Inconsistent(final_results[2]) /\ ~final_results[2].success
    /\ final_results[1] = par_results[1]
    /\ final_results[2] = par_results[2]
    /\ par_results[3].type = "Exception"
    /\ final_results[3].type = "Result"

\* ------------------ spawn_with_dependencies: several dependencies
\* Dependency lists of up to two distinct TaskIds, in either order.
WideLists(ids) ==
    {<< >>} \cup {<<d>> : d \in ids}
            \cup {p \in ids \X ids : p[1] # p[2]}
\* Graphs of up to MaxWideTasks tasks in which a task lists only tasks that
\* come before it in DepIds (so no cycle and no absent TaskId).
WideGraphs ==
    UNION { { [t \in TaskIds(n) |-> DepTaskSpec(t, deps[t])] :
                deps \in { f \in [TaskIds(n) -> WideLists(TaskIds(n))] :
                             \A t \in TaskIds(n) : \A k \in 1..Len(f[t]) :
                                 DepIndex(f[t][k]) < DepIndex(t) } } :
            n \in 0..MaxWideTasks }
DepWideInit ==
    /\ active_agents = EmptyMap /\ ParOff /\ SeqOff /\ ObsOff
    /\ task_graph \in WideGraphs
    /\ DepLaunched
SpecDepWide == DepWideInit /\ [][DepNext]_vars

\* The labelled summaries of the dependencies of deps, from the first on,
\* that have a stored Result with success=true.
RECURSIVE SuccessLabels(_)
SuccessLabels(deps) ==
    IF deps = << >> THEN << >>
    ELSE LET d == Head(deps)
         IN (IF d \in DOMAIN dep_results /\ dep_results[d].success
             THEN <<"\n\nDependency ", d, " result:\n",
                    SummaryOf(task_graph[d].description)>>
             ELSE << >>) \o SuccessLabels(Tail(deps))

\* C26: the context of the unit asked of the factory for a task is the
\* task's own context followed by the labelled summary of each listed
\* dependency that succeeded, in list order, and nothing else.
C26_ContextFromDirectSuccesses ==
    \A t \in DOMAIN dep_agents :
        dep_agents[t].context =
            task_graph[t].context \o SuccessLabels(task_graph[t].dependencies)

\* C26 witness: C lists B then A; B lists A; A succeeded and B failed, so
\* the context of C's unit is its own context and the label of A only.
C26_Witness ==
    /\ DOMAIN task_graph = {"A", "B", "C"}
    /\ task_graph["B"].dependencies = <<"A">>
    /\ task_graph["C"].dependencies = <<"B", "A">>
    /\ {"A", "B"} \subseteq DOMAIN dep_results
    /\ dep_results["A"].success
    /\ ~dep_results["B"].success
    /\ "C" \in DOMAIN dep_agents
    /\ dep_agents["C"].context =
           <<"ctx", "C", "\n\nDependency ", "A", " result:\n", "SA">>

\* ------------------ spawn_with_dependencies: independent tasks
\* C27: a task with no dependencies that has not yet left execute_task's
\* first lines can always go on to its factory call, whatever the other
\* watchers are doing and wherever it is in the mapping.
C27_NoDependencyNoWait ==
    \A t \in DOMAIN task_graph :
        (task_graph[t].dependencies = << >> /\ dep_watch[t] = "poll")
            => ENABLED DepProceed(t)

\* C27 witness: three tasks with no dependencies, all inside run() at once.
C27_Witness ==
    /\ DOMAIN task_graph = {"A", "B", "C"}
    /\ \A t \in DOMAIN task_graph : task_graph[t].dependencies = << >>
    /\ DepRunning = {"A", "B", "C"}

\* ------------------------------ spawn_parallel: a timed scenario
\* How long the run() of each unit of the scenario lasts, in units of
\* 10 ms: fast (10 ms), slow (100 ms), fast (10 ms).
Durations == <<1, 10, 1>>

\* spawn_parallel(tasks, max_concurrent=2) with the three tasks of the
\* scenario.
TimedInit == ParInit /\ par_n = Len(Durations) /\ max_concurrent = 2

\* The run() of unit i ends when it has lasted Durations[i].
ParRunEndTimed(i, o) ==
    /\ par_child[i] = "run"
    /\ now = par_started[i] + Durations[i]
    /\ ParRunEnd(i, o)

\* A step of the engine that takes no time is due, or a run() is at its end.
Urgent ==
    \/ ENABLED ParCreate
    \/ ENABLED ParLaunch
    \/ \E i \in DOMAIN par_child : ENABLED ParAcquire(i)
    \/ ENABLED ParJoin
    \/ \E i \in ParInFlight : now >= par_started[i] + Durations[i]

\* 10 ms pass while the call is in flight and nothing is due.
Tick ==
    /\ par_pc \in {"create", "gather"}
    /\ ~Urgent
    /\ now' = now + 1
    /\ UNCHANGED <<active_agents, par_pc, par_n, max_concurrent, agents,
                   semaphore, par_child, par_results, par_order, final_results,
                   par_started>>
    /\ UNCHANGED <<seqVars, depVars, obsVars>>

\* The scenario: factory calls return at once, the engine's own steps take
\* no time, only run() lasts.
TimedNext ==
    \/ ParCreate
    \/ ParLaunch
    \/ \E i \in DOMAIN par_child : ParAcquire(i)
    \/ \E i \in DOMAIN par_child :
           \E o \in RunOutcomes(agents[i]) : ParRunEndTimed(i, o)
    \/ ParJoin
    \/ Tick
SpecTimed == TimedInit /\ [][TimedNext]_vars

\* C28: in the scenario the first two units start at time 0, the third
\* starts when the first ends, while the slow one is still running; the
\* call returns 100 ms after it was made (not before, and less than 130 ms
\* after) with the three Results in input order.
C28_ScenarioTiming ==
    /\ \A i \in DOMAIN par_started :
           par_started[i] # -1 =>
               par_started[i] = IF i = 3 THEN Durations[1] ELSE 0
    /\ (par_pc = "gather" /\ par_started[3] = now) => par_child[2] = "run"
    /\ par_pc = "returned" =>
           /\ 100 <= 10 * now /\ 10 * now < 130
           /\ Len(final_results) = 3
           /\ \A i \in 1..3 :
                  /\ par_results[i] \in RunOutcomes(agents[i])
                  /\ final_results[i] = FinalResult(par_results[i])

\* C28 witness: the call has returned at 100 ms, the runs having ended in
\* the order fast, fast, slow.
C28_Witness ==
    /\ par_pc = "returned"
    /\ now = 10
    /\ par_order = <<1, 3, 2>>
    /\ par_started = <<0, 0, 1>>

\* ------------------------------ spawn_parallel: eager materialization
\* The tasks whose factory call has returned are the first Len(agents) of
\* the input, each unit made from its own task.
CreatedInInputOrder ==
    \A i \in 1..Len(agents) :
        agents[i] = SubAgent(TaskSpec(i).description, TaskSpec(i).context)

\* C29: units are made one per step in input order, with the semaphore not
\* yet built; a run() has started only when every factory call has
\* returned; and when a factory call has failed the call has raised with
\* no run() started, then or later.
C29_EagerMaterialization ==
    /\ CreatedInInputOrder
    /\ Len(agents) <= par_n
    /\ par_pc = "create" => (par_child = << >> /\ semaphore = 0)
    /\ par_child # << >> => Len(agents) = par_n
    /\ par_pc = "raised" => (Len(agents) < par_n /\ par_child = << >>)

\* C29 witness: the third factory call failed after two units were made,
\* with a gate of one permit requested; nothing was started.
C29_Witness ==
    /\ par_pc = "raised"
    /\ par_n = 3
    /\ max_concurrent = 1
    /\ Len(agents) = 2
    /\ ParStarted = {}

\* ------------------------------------ spawn_parallel: termination
\* One step of run_with_semaphore(i): it passes the gate, or its run() ends.
ChildStep(i) ==
    /\ i \in DOMAIN par_child
    /\ \/ ParAcquire(i)
       \/ \E o \in RunOutcomes(agents[i]) : ParRunEnd(i, o)

\* Every awaited factory call ends, every child is scheduled and every
\* run() ends, and the caller is resumed when gather is done.
ParFairness ==
    /\ WF_vars(ParCreate \/ ParCreateFail)
    /\ WF_vars(ParLaunch)
    /\ WF_vars(ParReturnEmpty)
    /\ \A i \in 1..MaxLiveTasks : WF_vars(ChildStep(i))
    /\ WF_vars(ParJoin)

\* spawn_parallel on up to MaxLiveTasks tasks under that scheduling.
ParLiveInit == ParInit /\ par_n <= MaxLiveTasks
SpecParLive == ParLiveInit /\ [][ParNext]_vars /\ ParFairness

\* Every position of the input is exactly once in the list of ended runs.
EachRanOnce ==
    /\ Len(par_order) = par_n
    /\ \A i \in 1..par_n :
           Cardinality({k \in 1..Len(par_order) : par_order[k] = i}) = 1

\* C30: with max_concurrent >= 1, unless a factory call fails, the call
\* eventually returns with the run() of every unit started and ended
\* exactly once, whatever the runs returned or raised.
C30_ParallelReturns ==
    max_concurrent >= 1 =>
        <>(par_pc = "raised" \/ (par_pc = "returned" /\ EachRanOnce))

\* C30 witness: one permit, the first unit raised, the second ran after it
\* and the call returned.
C30_Witness ==
    /\ par_pc = "returned"
    /\ par_n = 2
    /\ max_concurrent = 1
    /\ par_results[1].type = "Exception"
    /\ par_order = <<1, 2>>
    /\ par_started[2] # -1

\* --------------------------------------- spawn_parallel: registry
\* The registry holds exactly the first k units of agents, each under the
\* key of its position.
RegistryHoldsFirst(k) ==
    /\ DOMAIN active_agents = {AgentKey(i) : i \in 1..k}
    /\ \A i \in 1..k : active_agents[AgentKey(i)] = agents[i]

\* C31: while units are being made the registry holds the units made so
\* far; from the launch until the join it holds all N units, waiting,
\* running or finished; it is empty when the call has returned.
C31_ParallelRegistry ==
    /\ par_pc = "create" => (RegistryHoldsFirst(Len(agents)) /\ ParStarted = {})
    /\ par_pc = "gather" => RegistryHoldsFirst(par_n)
    /\ par_pc = "returned" => active_agents = EmptyMap

\* C31 witness: one unit has finished, one is running and one is waiting
\* at the gate; the registry lists all three.
C31_Witness ==
    /\ par_pc = "gather"
    /\ par_child = <<"done", "run", "wait">>
    /\ DOMAIN active_agents = {0, 1, 2}

\* ------------------------------------- spawn_sequential: registry
\* C32: the registry never holds more than one entry; the unit whose run()
\* is in flight is listed under the key of its position; the registry is
\* empty whenever the next unit is about to be created and when the call
\* has returned.
C32_SequentialRegistry ==
    /\ Cardinality(DOMAIN active_agents) <= 1
    /\ \A i \in seq_running :
           /\ DOMAIN active_agents = {AgentKey(i)}
           /\ active_agents[AgentKey(i)] = seq_agents[i]
    /\ seq_pc \in {"create", "returned"} => active_agents = EmptyMap

\* C32 witness: the second unit is running and is the only entry.
C32_Witness ==
    /\ seq_running = {2}
    /\ DOMAIN active_agents = {1}
    /\ 1 \in DOMAIN seq_finished

\* ------------------------------ spawn_sequential: failed Results go on
\* C33: a Result with success=false does not end the batch: while the call
\* is between steps every earlier task has its Result in the list whatever
\* its success flag, and a call that has returned created a unit for every
\* task and returns one Result per task, the i-th being the one the run()
\* of task i returned.
C33_FailedResultContinues ==
    /\ (seq_pc \in {"create", "run"} /\ seq_n > 0) =>
           /\ seq_idx <= seq_n
           /\ Len(seq_results) = seq_idx - 1
    /\ seq_pc = "returned" =>
           /\ Len(seq_agents) = seq_n
           /\ Len(seq_results) = seq_n
           /\ \A i \in 1..seq_n :
                  /\ Returned(seq_results[i])
                  /\ seq_results[i] = seq_finished[i]
                  /\ seq_results[i].summary = SummaryOf(TaskSpec(i).description)

\* C33 witness: the first task returned success=false and the call still
\* returned three Results.
C33_Witness ==
    /\ seq_pc = "returned"
    /\ seq_n = 3
    /\ ~seq_results[1].success
    /\ seq_results[3].success

\* ------------------------------- concurrent calls: registry removal
\* C34 (as claimed): with spawn_parallel and spawn_sequential in flight
\* together, the sequential call never ends by a KeyError from removing its
\* own registry entry: the removal succeeds whatever the other call did to
\* the registry in the meantime.
C34_RemovalNeverFails ==
    seq_pc = "raised" => seq_exc # KeyErrorObj

\* ------------------- spawn_with_dependencies: completed implies stored
\* C35: every TaskId marked complete has its Result in the results mapping,
\* and a watcher that has left the poll loop finds the Result of each of
\* its dependencies there: the context its unit was created with is the
\* one built from those stored Results.
C35_CompletedHaveResults ==
    /\ completed \subseteq DOMAIN dep_results
    /\ \A d \in completed : Returned(dep_results[d])
    /\ \A t \in DepProceeded :
           /\ DependenciesOf(t) \subseteq DOMAIN dep_results
           /\ dep_agents[t].context =
                  BuildContext(task_graph[t].context, task_graph[t].dependencies,
                               Len(task_graph[t].dependencies))

\* C35 witness: C depends on B and B on A, both are marked complete and
\* stored, and C has left the poll loop.
C35_Witness ==
    /\ DOMAIN task_graph = {"A", "B", "C"}
    /\ task_graph["C"].dependencies = <<"B">>
    /\ task_graph["B"].dependencies = <<"A">>
    /\ completed = {"A", "B"}
    /\ DOMAIN dep_results = {"A", "B"}
    /\ dep_watch["C"] = "create"

\* --------------------------- spawn_parallel: what the list is made of
\* C36 (as claimed): every element of the list spawn_parallel returns is a
\* Result, however the run() of its unit ended; no exception object is
\* handed to the caller.
C36_OnlyResultsReturned ==
    par_pc = "returned" =>
        \A i \in 1..Len(final_results) : Returned(final_results[i])

\* ------------------------------- spawn_parallel: max_concurrent = 0
\* C37: with max_concurrent = 0 and a non-empty task list no run() is ever
\* started and the call never returns; once the creation loop is through,
\* every unit is created and registered, every task waits at the gate and
\* no step of the call is possible any more, so it neither returns nor
\* raises. (The call can end by exception only inside the creation loop,
\* when the factory raises.)
C37_ZeroPermitsBlocks ==
    (max_concurrent = 0 /\ par_n > 0) =>
        /\ ParStarted = {}
        /\ par_pc # "returned"
        /\ par_pc = "raised" => Len(agents) < par_n
        /\ par_pc = "gather" =>
               /\ Len(agents) = par_n
               /\ RegistryHoldsFirst(par_n)
               /\ \A i \in 1..par_n : par_child[i] = "wait"
               /\ ~ENABLED ParNext

\* C37 witness: three units are created and registered and all three
\* tasks wait at a gate without permits.
C37_Witness ==
    /\ max_concurrent = 0
    /\ par_n = 3
    /\ par_pc = "gather"
    /\ semaphore = 0
    /\ DOMAIN active_agents = {0, 1, 2}
    /\ par_child = <<"wait", "wait", "wait">>

====
